---------------------------- MODULE Spec2Model ----------------------------
(***************************************************************************)
(* A model of examples/readability.js of Fathom: the tunable content       *)
(* extraction pipeline (tunedContentFnodes), the quality metric            *)
(* (DiffStats, deviationScore) and the coefficient tuner                   *)
(* (ContentFnodesTuner).                                                   *)
(*                                                                         *)
(* JavaScript numbers are modelled as exact fractions n/d extended with    *)
(* NaN (0/0), +Infinity (1/0) and -Infinity (-1/0); the rounding of        *)
(* IEEE-754 doubles and the sign of zero are not modelled.  Strings are    *)
(* sequences of one-character strings.                                     *)
(***************************************************************************)
EXTENDS Integers, Sequences, FiniteSets, TLC

VARIABLES
    stats,          \* the DiffStats instance: its two totals and its pipeline
    hist,           \* one record per compare() call made on the instance
    scoreOut,       \* what score() returned, once it has been called
    raised,         \* the exception the last call on the instance ended with
    trial,          \* the last deviationScore() call: arguments and result
    firstResult,    \* per (docPairs, coeffs): what the first such call returned
    coeffs,         \* the module-level array coeffs
    annealer,       \* the locals of ContentFnodesTuner.anneal()
    transition,     \* the last randomTransition() call: argument and result
    candidates,     \* two candidate fnodes the scoring rules run over
    bound,          \* the coefficients bound in the pipeline scoring them
    stage           \* how many of the three scoring rules have run

diffVars == <<hist, scoreOut, raised>>
devVars == <<trial, firstResult>>
tunerVars == <<coeffs, annealer, transition>>
scoringVars == <<candidates, bound, stage>>
vars == <<stats, hist, scoreOut, raised, trial, firstResult, coeffs, annealer,
          transition, candidates, bound, stage>>

---------------------------------------------------------------------------
(* Bounds of the model.                                                    *)

\* Longest raw text of an expected document.
MaxLen == 2
\* Most nodes a stub pipeline returns for one source document.
MaxNodes == 2
\* Most compare() calls made on one DiffStats instance.
MaxCalls == 2
\* Most different (docPairs, coeffs) arguments deviationScore() is tried with.
MaxTrials == 2
\* Most transitions one anneal() run tries.
MaxSteps == 2
\* Longest inline text of a candidate element whose scoring is followed.
MaxInline == 2

---------------------------------------------------------------------------
(* JavaScript numbers.                                                     *)

Abs(i) == IF i < 0 THEN -i ELSE i

Sign(i) == IF i < 0 THEN -1 ELSE IF i = 0 THEN 0 ELSE 1

RECURSIVE GCD(_, _)
GCD(a, b) == IF b = 0 THEN a ELSE GCD(b, a % b)

\* The number n/d in lowest terms with d >= 0; d = 0 gives NaN or +-Infinity.
Num(n, d) ==
    IF d = 0 THEN [n |-> Sign(n), d |-> 0]
    ELSE LET g == GCD(Abs(n), Abs(d))
         IN  [n |-> Sign(d) * Sign(n) * (Abs(n) \div g), d |-> Abs(d) \div g]

Number(i) == [n |-> i, d |-> 1]
NaN == [n |-> 0, d |-> 0]
Infinity == [n |-> 1, d |-> 0]
IsNaN(x) == x.d = 0 /\ x.n = 0
IsFinite(x) == x.d > 0

Mul(a, b) == Num(a.n * b.n, a.d * b.d)

Recip(b) == IF b.d = 0 THEN (IF b.n = 0 THEN NaN ELSE Number(0)) ELSE Num(b.d, b.n)

Div(a, b) == Mul(a, Recip(b))

Neg(a) == [n |-> -a.n, d |-> a.d]

Add(a, b) ==
    IF a.d = 0 /\ b.d = 0
    THEN (IF a.n = b.n THEN a ELSE NaN)
    ELSE Num(a.n * b.d + b.n * a.d, a.d * b.d)

Sub(a, b) == Add(a, Neg(b))

\* a < b as JavaScript evaluates it: false whenever either side is NaN.
Lt(a, b) ==
    /\ ~IsNaN(a)
    /\ ~IsNaN(b)
    /\ IF a.d = 0 /\ b.d = 0 THEN a.n < b.n ELSE a.n * b.d < b.n * a.d

---------------------------------------------------------------------------
(* Strings.                                                                *)

Alphabet == {"a", " ", "\n"}

\* The characters String.prototype.trim strips: WhiteSpace and
\* LineTerminator of ECMAScript.  A character that cannot be written in a
\* string of this module is named by its code point.
Whitespace ==
    {" ", "\n", "\t", "\r", "\f", "U+000B", "U+00A0", "U+FEFF", "U+2028", "U+2029",
     "U+1680", "U+2000", "U+2001", "U+2002", "U+2003", "U+2004", "U+2005",
     "U+2006", "U+2007", "U+2008", "U+2009", "U+200A", "U+202F", "U+205F",
     "U+3000"}

\* All strings over Alphabet of length at most k.
Strings(k) == UNION {[1..m -> Alphabet] : m \in 0..k}

\* String.prototype.split('\n'): the lines of a string, at least one.
RECURSIVE split(_)
split(str) ==
    IF \A i \in 1..Len(str) : str[i] # "\n" THEN <<str>>
    ELSE LET i == CHOOSE i \in 1..Len(str) :
                      /\ str[i] = "\n"
                      /\ \A j \in 1..(i - 1) : str[j] # "\n"
         IN  <<SubSeq(str, 1, i - 1)>> \o split(SubSeq(str, i + 1, Len(str)))

\* Array.prototype.join('\n'): the empty string for an empty array.
RECURSIVE join(_)
join(parts) ==
    IF parts = <<>> THEN <<>>
    ELSE IF Len(parts) = 1 THEN parts[1]
    ELSE parts[1] \o <<"\n">> \o join(Tail(parts))

\* String.prototype.trim.
RECURSIVE trim(_)
trim(l) ==
    IF l = <<>> THEN l
    ELSE IF l[1] \in Whitespace THEN trim(Tail(l))
    ELSE IF l[Len(l)] \in Whitespace THEN trim(SubSeq(l, 1, Len(l) - 1))
    ELSE l

trimLines(str) ==
    LET lines == split(str)
    IN  join([i \in 1..Len(lines) |-> trim(lines[i])])

\* str.replace(/\n\n+/g, '\n'): a line break that follows a line break goes.
RECURSIVE collapseNewlines(_)
collapseNewlines(str) ==
    IF Len(str) < 2 THEN str
    ELSE IF str[1] = "\n" /\ str[2] = "\n" THEN collapseNewlines(Tail(str))
    ELSE <<str[1]>> \o collapseNewlines(Tail(str))

textContent(dom) == dom.firstChild.textContent

Min(x, y) == IF x < y THEN x ELSE y

\* One row of the edit-distance table: the row of a's next character ch,
\* from the row before it.
RECURSIVE levenRow(_, _, _, _)
levenRow(prev, ch, b, acc) ==
    LET j == Len(acc)
    IN  IF j > Len(b) THEN acc
        ELSE levenRow(prev, ch, b,
                 Append(acc,
                     Min(Min(prev[j + 1] + 1, acc[j] + 1),
                         prev[j] + (IF ch = b[j] THEN 0 ELSE 1))))

RECURSIVE levenRows(_, _, _)
levenRows(prev, a, b) ==
    IF a = <<>> THEN prev
    ELSE levenRows(levenRow(prev, a[1], b, <<prev[1] + 1>>), Tail(a), b)

\* The Levenshtein distance of two strings.
leven(a, b) == levenRows([j \in 1..(Len(b) + 1) |-> j - 1], a, b)[Len(b) + 1]

---------------------------------------------------------------------------
(* The extraction pipeline.                                                *)

\* JavaScript values other than numbers that a caller can hand over where
\* a number is meant: undefined, null, booleans, strings (sequences of
\* characters), arrays and plain objects.
Undefined == [undefined |-> TRUE]
Null == [null |-> TRUE]
Boolean(b) == [boolean |-> b]
String(str) == [string |-> str]
Array(a) == [array |-> a]
Object == [object |-> TRUE]

IsNumber(v) == "n" \in DOMAIN v
IsBoolean(v) == "boolean" \in DOMAIN v
IsString(v) == "string" \in DOMAIN v
IsArray(v) == "array" \in DOMAIN v

\* ToBoolean(v) is false.
IsFalsy(v) ==
    \/ v = Undefined
    \/ v = Null
    \/ v = Boolean(FALSE)
    \/ v = String(<<>>)
    \/ IsNumber(v) /\ v.n = 0

DecimalDigits == <<"0", "1", "2", "3", "4", "5", "6", "7", "8", "9">>
HexLetters == <<"a", "b", "c", "d", "e", "f">>
HexCapitals == <<"A", "B", "C", "D", "E", "F">>

\* The value of a digit; 99 for a character that is no digit.
DigitValue(ch) ==
    IF \E i \in 1..10 : DecimalDigits[i] = ch
    THEN (CHOOSE i \in 1..10 : DecimalDigits[i] = ch) - 1
    ELSE IF \E i \in 1..6 : HexLetters[i] = ch
    THEN (CHOOSE i \in 1..6 : HexLetters[i] = ch) + 9
    ELSE IF \E i \in 1..6 : HexCapitals[i] = ch
    THEN (CHOOSE i \in 1..6 : HexCapitals[i] = ch) + 9
    ELSE 99

\* Every character of str is a digit of the base; str may be empty.
AllDigits(str, base) == \A i \in 1..Len(str) : DigitValue(str[i]) < base

RECURSIVE DigitsValue(_, _, _)
DigitsValue(str, base, acc) ==
    IF str = <<>> THEN acc
    ELSE DigitsValue(Tail(str), base, acc * base + DigitValue(str[1]))

RECURSIVE Pow10(_)
Pow10(k) == IF k = 0 THEN 1 ELSE 10 * Pow10(k - 1)

\* The part of str before, and the part after, its first character among
\* chars; all of str, and nothing, when it has none.
RECURSIVE Before(_, _)
Before(str, chars) ==
    IF str = <<>> \/ str[1] \in chars THEN <<>>
    ELSE <<str[1]>> \o Before(Tail(str), chars)

RECURSIVE After(_, _)
After(str, chars) ==
    IF str = <<>> THEN <<>>
    ELSE IF str[1] \in chars THEN Tail(str)
    ELSE After(Tail(str), chars)

Has(str, chars) == \E i \in 1..Len(str) : str[i] \in chars

\* The value of the digits whole, a point and the digits frac, one of the
\* two not empty; NaN for anything else.
Mantissa(whole, frac) ==
    IF AllDigits(whole, 10) /\ AllDigits(frac, 10) /\ whole \o frac # <<>>
    THEN Num(DigitsValue(whole \o frac, 10, 0), Pow10(Len(frac)))
    ELSE NaN

\* m times ten to the power the digits say, divided for the sign "-".
Power(m, sign, digits) ==
    IF digits = <<>> \/ ~AllDigits(digits, 10) THEN NaN
    ELSE IF sign = "-" THEN Div(m, Number(Pow10(DigitsValue(digits, 10, 0))))
    ELSE Mul(m, Number(Pow10(DigitsValue(digits, 10, 0))))

\* m scaled by an exponent part, which may begin with a sign.
Scaled(m, exponent) ==
    IF exponent # <<>> /\ exponent[1] \in {"+", "-"}
    THEN Power(m, exponent[1], Tail(exponent))
    ELSE Power(m, "+", exponent)

\* An unsigned decimal literal: digits, a fraction and an exponent, with a
\* digit before or after the point; NaN for anything else.
UnsignedDecimal(str) ==
    IF Has(str, {"e", "E"})
    THEN Scaled(Mantissa(Before(Before(str, {"e", "E"}), {"."}),
                         After(Before(str, {"e", "E"}), {"."})),
                After(str, {"e", "E"}))
    ELSE Mantissa(Before(str, {"."}), After(str, {"."}))

\* Infinity or an unsigned decimal literal.
Unsigned(str) ==
    IF str = <<"I", "n", "f", "i", "n", "i", "t", "y">> THEN Infinity
    ELSE UnsignedDecimal(str)

\* A literal 0x.., 0o.. or 0b..: its digits after the prefix, in the base.
Prefixed(digits, base) ==
    IF digits # <<>> /\ AllDigits(digits, base)
    THEN Number(DigitsValue(digits, base, 0)) ELSE NaN

\* A literal with an optional sign: Infinity or a decimal literal.
SignedDecimal(str) ==
    IF str[1] = "-" THEN Neg(Unsigned(Tail(str)))
    ELSE IF str[1] = "+" THEN Unsigned(Tail(str))
    ELSE Unsigned(str)

\* A numeric literal without white space around it.
NumericLiteral(str) ==
    IF str = <<>> THEN Number(0)
    ELSE IF Len(str) >= 2 /\ str[1] = "0" /\ str[2] \in {"x", "X"}
    THEN Prefixed(Tail(Tail(str)), 16)
    ELSE IF Len(str) >= 2 /\ str[1] = "0" /\ str[2] \in {"o", "O"}
    THEN Prefixed(Tail(Tail(str)), 8)
    ELSE IF Len(str) >= 2 /\ str[1] = "0" /\ str[2] \in {"b", "B"}
    THEN Prefixed(Tail(Tail(str)), 2)
    ELSE SignedDecimal(str)

\* The number a string converts to (StringToNumber of ECMAScript): white
\* space around it is dropped, the empty string is 0, a string that is no
\* numeric literal is NaN.  The value is exact: neither rounding to a
\* double nor overflow to Infinity is modelled.
StringToNumber(str) == NumericLiteral(trim(str))

\* The number an operand of * or - converts to (ToNumber of ECMAScript):
\* undefined is NaN, null 0, true 1, a string its numeric value, an array
\* the numeric value of its elements joined by commas, an object NaN.
RECURSIVE ToNumber(_)
ToNumber(v) ==
    IF IsNumber(v) THEN v
    ELSE IF v = Null THEN Number(0)
    ELSE IF IsBoolean(v) THEN (IF v.boolean THEN Number(1) ELSE Number(0))
    ELSE IF IsString(v) THEN StringToNumber(v.string)
    ELSE IF IsArray(v) THEN
        IF v.array = <<>> THEN Number(0)
        ELSE IF Len(v.array) > 1 THEN NaN
        ELSE IF v.array[1] \in {Undefined, Null} THEN Number(0)
        ELSE IF IsBoolean(v.array[1]) THEN NaN
        ELSE ToNumber(v.array[1])
    ELSE NaN

\* Default values of tunedContentFnodes' seven parameters, in order:
\* coeffLinkDensity, coeffParagraphTag, coeffLength, coeffDifferentDepth,
\* coeffDifferentTag, coeffSameTag, coeffStride.
DefaultCoeffs ==
    <<Num(3, 2), Num(9, 2), Number(2), Num(13, 2), Number(2), Num(1, 2), Number(0)>>

\* tunedContentFnodes with parameters that have no default values.
tunedContentFnodesNoDefaults(args) ==
    LET arg(i) == IF i <= Len(args) THEN args[i] ELSE Undefined
    IN  [coeffLinkDensity    |-> arg(1),
         coeffParagraphTag   |-> arg(2),
         coeffLength         |-> arg(3),
         coeffDifferentDepth |-> arg(4),
         coeffDifferentTag   |-> arg(5),
         coeffSameTag        |-> arg(6),
         coeffStride         |-> arg(7)]

\* The binding of tunedContentFnodes' parameters for a call with the
\* arguments args: a missing or undefined argument takes its default, an
\* argument after the seventh is dropped, nothing is validated.
tunedContentFnodes(args) ==
    LET arg(i) == IF i <= Len(args) /\ args[i] # Undefined
                  THEN args[i] ELSE DefaultCoeffs[i]
    IN  [coeffLinkDensity    |-> arg(1),
         coeffParagraphTag   |-> arg(2),
         coeffLength         |-> arg(3),
         coeffDifferentDepth |-> arg(4),
         coeffDifferentTag   |-> arg(5),
         coeffSameTag        |-> arg(6),
         coeffStride         |-> arg(7)]

\* utils.inlineTextLength: the length of the text directly inside an
\* element and its inline children.
inlineTextLength(element) == element.inlineLength

\* utils.linkDensity: the part of inlineLength that is not text outside
\* links, as a fraction of inlineLength.
linkDensity(fnode, inlineLength) ==
    LET lengthWithoutLinks ==
            fnode.element.inlineLength - fnode.element.linkLength
    IN  Div(Sub(inlineLength, Number(lengthWithoutLinks)), inlineLength)

scoreByLength(fnode, coeffLength) ==
    LET length == Mul(Number(inlineTextLength(fnode.element)), ToNumber(coeffLength))
    IN  [score |-> length, note |-> [inlineLength |-> length]]

\* The link-density callback scaling by the link density itself.
linkDensityScoreDirect(fnode, coeffLinkDensity) ==
    Mul(linkDensity(fnode, fnode.note.inlineLength), ToNumber(coeffLinkDensity))

\* The score callback of the link-density rule.
linkDensityScore(fnode, coeffLinkDensity) ==
    Mul(Sub(Number(1), linkDensity(fnode, fnode.note.inlineLength)),
        ToNumber(coeffLinkDensity))

\* The selector of the first rule.
ParagraphishTags ==
    {"p", "div", "li", "code", "blockquote", "pre",
     "h1", "h2", "h3", "h4", "h5", "h6"}

\* A fresh fnode of the rule engine, with the score 1 that the first rule
\* scales.
Fnode(element) ==
    [element |-> element, score |-> Number(1), note |-> [inlineLength |-> NaN]]

\* rule(dom('p,div,...'), props(scoreByLength).type('paragraphish')): the
\* score of a candidate is the score scoreByLength gives, and its note the
\* note.
lengthRule(fnode, c) ==
    LET r == scoreByLength(fnode, c.coeffLength)
    IN  [fnode EXCEPT !.score = Mul(fnode.score, r.score), !.note = r.note]

\* rule(type('paragraphish'), score(fnode => ...)): the score is rescaled
\* by what the callback gives.
linkDensityRule(fnode, c) ==
    [fnode EXCEPT !.score = Mul(fnode.score, linkDensityScore(fnode, c.coeffLinkDensity))]

\* rule(dom('p'), score(coeffParagraphTag).type('paragraphish')): a flat
\* bonus added to the score of a p element.
paragraphTagRule(fnode, c) ==
    IF fnode.element.tag = "p"
    THEN [fnode EXCEPT !.score = Add(fnode.score, ToNumber(c.coeffParagraphTag))]
    ELSE fnode

\* The paragraphish fnodes of a document, scored, in document order.
RECURSIVE paragraphish(_, _)
paragraphish(elements, c) ==
    IF elements = <<>> THEN <<>>
    ELSE IF elements[1].tag \in ParagraphishTags
    THEN <<paragraphTagRule(linkDensityRule(lengthRule(Fnode(elements[1]), c), c), c)>>
             \o paragraphish(Tail(elements), c)
    ELSE paragraphish(Tail(elements), c)

splittingDistance == 3

\* The cost of going from one cluster member to the next.
traversalCost(a, b, c) ==
    Add(Add(Mul(Number(Abs(a.element.depth - b.element.depth)),
                ToNumber(c.coeffDifferentDepth)),
            IF a.element.tag # b.element.tag
            THEN ToNumber(c.coeffDifferentTag) ELSE ToNumber(c.coeffSameTag)),
        IF b.element.stride > splittingDistance
        THEN ToNumber(c.coeffStride) ELSE Number(0))

\* Total score of the run fnodes[i..j] less the cost of traversing it.
RECURSIVE clusterValue(_, _, _, _)
clusterValue(fnodes, i, j, c) ==
    IF i = j THEN fnodes[i].score
    ELSE Sub(Add(clusterValue(fnodes, i, j - 1, c), fnodes[j].score),
             traversalCost(fnodes[j - 1], fnodes[j], c))

\* The runs <<i, j>> of 1..n in the order the search visits them.
RECURSIVE runsFrom(_, _, _)
runsFrom(i, j, n) ==
    IF i > n THEN <<>>
    ELSE IF j > n THEN runsFrom(i + 1, i + 1, n)
    ELSE <<(<<i, j>>)>> \o runsFrom(i, j + 1, n)

\* The first run no later run has a greater value than (a scan with >).
RECURSIVE bestRun(_, _, _, _)
bestRun(fnodes, runs, best, c) ==
    IF runs = <<>> THEN best
    ELSE LET r == runs[1]
         IN  bestRun(fnodes, Tail(runs),
                     IF Lt(clusterValue(fnodes, best[1], best[2], c),
                           clusterValue(fnodes, r[1], r[2], c))
                     THEN r ELSE best,
                     c)

\* type('paragraphish').topTotalingCluster({...}): the members of the
\* best-valued run of paragraphish fnodes; none when there is no fnode.
topTotalingCluster(fnodes, c) ==
    IF fnodes = <<>> THEN <<>>
    ELSE LET r == bestRun(fnodes, runsFrom(1, 1, Len(fnodes)), <<1, 1>>, c)
         IN  SubSeq(fnodes, r[1], r[2])

\* out('sortedContent').allThrough(domSort): the fnodes in document order.
domSort(fnodes) == fnodes

\* contentFnodes(doc) of the pipeline built with the bound coefficients c.
contentFnodes(c, doc) ==
    domSort(topTotalingCluster(paragraphish(doc.elements, c), c))

\* A pipeline handed to DiffStats: one built by tunedContentFnodes, or any
\* other function from a document to fnodes, which a document of the model
\* carries as its field fnodes.
TunedPipeline(c) == [tuned |-> TRUE, c |-> c]
GivenPipeline == [tuned |-> FALSE, c |-> tunedContentFnodes(<<>>)]

runPipeline(pipeline, doc) ==
    IF pipeline.tuned THEN contentFnodes(pipeline.c, doc) ELSE doc.fnodes

---------------------------------------------------------------------------
(* DiffStats.                                                              *)

\* new DiffStats(contentFnodes): without a pipeline the instance builds
\* tunedContentFnodes() for itself.
DiffStatsNew(pipeline) ==
    [lengthOfExpectedTexts |-> 0,
     lengthOfDiffs |-> 0,
     contentFnodes |-> IF IsFalsy(pipeline)
                       THEN TunedPipeline(tunedContentFnodes(<<>>))
                       ELSE pipeline]

\* The two texts compare() measures.
expectedTextOf(expectedDom) == collapseNewlines(trimLines(textContent(expectedDom)))

gotTextOf(fnodes) ==
    collapseNewlines(trimLines(
        join([i \in 1..Len(fnodes) |-> fnodes[i].element.textContent])))

\* compare() assigning the last call's figures instead of adding them.
compareKeepsLast(self, expectedDom, sourceDom) ==
    LET expectedText == expectedTextOf(expectedDom)
        gotText == gotTextOf(runPipeline(self.contentFnodes, sourceDom))
    IN  [self EXCEPT
            !.lengthOfExpectedTexts = Len(expectedText),
            !.lengthOfDiffs = leven(expectedText, gotText)]

\* compare() leaving out a document nothing was extracted from.
compareSkipsEmpty(self, expectedDom, sourceDom) ==
    LET expectedText == expectedTextOf(expectedDom)
        gotText == gotTextOf(runPipeline(self.contentFnodes, sourceDom))
    IN  IF gotText = <<>> THEN self
        ELSE [self EXCEPT
                 !.lengthOfExpectedTexts = self.lengthOfExpectedTexts + Len(expectedText),
                 !.lengthOfDiffs = self.lengthOfDiffs + leven(expectedText, gotText)]

\* DiffStats.compare: the instance after the call.
compare(self, expectedDom, sourceDom) ==
    LET expectedText == expectedTextOf(expectedDom)
        gotText == gotTextOf(runPipeline(self.contentFnodes, sourceDom))
    IN  [self EXCEPT
            !.lengthOfExpectedTexts = self.lengthOfExpectedTexts + Len(expectedText),
            !.lengthOfDiffs = self.lengthOfDiffs + leven(expectedText, gotText)]

\* score() with the two totals the wrong way round.
scoreSwapped(self) ==
    Mul(Div(Number(self.lengthOfExpectedTexts), Number(self.lengthOfDiffs)),
        Number(100))

\* DiffStats.score.
score(self) ==
    Mul(Div(Number(self.lengthOfDiffs), Number(self.lengthOfExpectedTexts)),
        Number(100))

---------------------------------------------------------------------------
(* A DiffStats instance in use: compare() and score() called in any order. *)

ExpectedDoms == {[firstChild |-> [textContent |-> s]] : s \in Strings(MaxLen)}

\* Texts of the elements of a source document.
NodeTexts == {<<"a">>, <<"\r", "\n">>}

\* An inline element: no candidate of the tuned pipeline, which a pipeline
\* handed to DiffStats may return all the same.
TextElement(s) ==
    [tag |-> "span", inlineLength |-> Len(s), linkLength |-> 0, depth |-> 1,
     stride |-> 0, textContent |-> s]

\* Source documents of inline elements, each with the fnodes a given
\* pipeline returns for it: one per element.
SourceDoms ==
    {[elements |-> [i \in 1..Len(f) |-> TextElement(f[i])],
      fnodes |-> [i \in 1..Len(f) |-> Fnode(TextElement(f[i]))]] :
        f \in UNION {[1..m -> NodeTexts] : m \in 0..MaxNodes}}

\* No exception.
NoError == "none"

NoScore == [called |-> FALSE, outcome |-> "none", value |-> NaN]

NoTrial == [made |-> FALSE]
NoAnnealer ==
    [pc |-> "idle", steps |-> 0, initial |-> <<>>,
     currentSolution |-> <<>>, currentCost |-> NaN,
     bestSolution |-> <<>>, bestCost |-> NaN,
     currentIsCoeffs |-> FALSE, bestIsCoeffs |-> FALSE, bestIsCurrent |-> FALSE]
NoTransition == [made |-> FALSE]

DiffInit ==
    /\ \E pipeline \in {Undefined, GivenPipeline} : stats = DiffStatsNew(pipeline)
    /\ hist = <<>>
    /\ scoreOut = NoScore
    /\ raised = NoError
    /\ trial = NoTrial
    /\ firstResult = <<>>
    /\ coeffs = DefaultCoeffs
    /\ annealer = NoAnnealer
    /\ transition = NoTransition
    /\ candidates = <<>>
    /\ bound = tunedContentFnodes(<<>>)
    /\ stage = 0

Compare(expectedDom, sourceDom) ==
    /\ Len(hist) < MaxCalls
    /\ stats' = compare(stats, expectedDom, sourceDom)
    /\ \E expectedText \in {expectedTextOf(expectedDom)},
          gotText \in {gotTextOf(runPipeline(stats.contentFnodes, sourceDom))} :
          hist' = Append(hist,
                [len |-> Len(expectedText),
                 dist |-> leven(expectedText, gotText),
                 addedLen |-> stats'.lengthOfExpectedTexts - stats.lengthOfExpectedTexts,
                 addedDiffs |-> stats'.lengthOfDiffs - stats.lengthOfDiffs,
                 gotEmpty |-> gotText = <<>>,
                 noFnodes |-> runPipeline(stats.contentFnodes, sourceDom) = <<>>,
                 match |-> expectedText = gotText])
    /\ scoreOut' = NoScore
    /\ raised' = NoError
    /\ UNCHANGED <<devVars, tunerVars, scoringVars>>

Score ==
    /\ ~scoreOut.called
    /\ scoreOut' = [called |-> TRUE, outcome |-> "returned", value |-> score(stats)]
    /\ raised' = NoError
    /\ UNCHANGED <<stats, hist>>
    /\ UNCHANGED <<devVars, tunerVars, scoringVars>>


---------------------------------------------------------------------------
(* deviationScore, called again and again as the tuner's trials do.        *)

RECURSIVE compareAll(_, _)
compareAll(self, docPairs) ==
    IF docPairs = <<>> THEN self
    ELSE compareAll(compare(self, docPairs[1][1], docPairs[1][2]), Tail(docPairs))

\* deviationScore feeding one DiffStats instance shared by all calls.
deviationStatsShared(docPairs, coeffArgs) ==
    compareAll([stats EXCEPT !.contentFnodes =
                    TunedPipeline(tunedContentFnodes(coeffArgs))],
               docPairs)

\* The DiffStats instance deviationScore builds and feeds, as it is when
\* score() is called on it.
deviationStats(docPairs, coeffArgs) ==
    compareAll(DiffStatsNew(TunedPipeline(tunedContentFnodes(coeffArgs))), docPairs)

deviationScore(docPairs, coeffArgs) == score(deviationStats(docPairs, coeffArgs))

Text(n) == [i \in 1..n |-> "a"]

Element(tag, inlineLength, linkLength, depth, text) ==
    [tag |-> tag, inlineLength |-> inlineLength, linkLength |-> linkLength,
     depth |-> depth, stride |-> 0, textContent |-> text]

Expected(s) == [firstChild |-> [textContent |-> s]]

\* A source document; a pipeline handed to DiffStats returns all of its
\* elements.
Source(elements) ==
    [elements |-> elements,
     fnodes |-> [i \in 1..Len(elements) |-> Fnode(elements[i])]]

\* Content in two paragraphs side by side, which make one cluster.
PairParagraphs ==
    <<Expected(<<" ", "a", "\n", "\n", "a">>),
      Source(<<Element("p", 1, 0, 1, Text(1)),
               Element("p", 1, 0, 1, Text(1))>>)>>

\* A navigation bar, which is no candidate, a sidebar and, far below it, a
\* paragraph of content whose score the default coefficients make equal
\* to the sidebar's.
PairSidebar ==
    <<Expected(<<"a">>),
      Source(<<Element("nav", 2, 2, 1, Text(2)),
               Element("div", 4, 0, 1, Text(4)),
               Element("p", 1, 0, 4, Text(1))>>)>>

\* The same with the paragraph of content first.
PairAside ==
    <<Expected(<<"a">>),
      Source(<<Element("p", 1, 0, 1, Text(1)),
               Element("div", 4, 0, 4, Text(4))>>)>>

\* A source document without any candidate element.
PairNoCandidate ==
    <<Expected(<<"a", " ">>), Source(<<Element("nav", 2, 2, 1, Text(2))>>)>>

Corpus == <<PairParagraphs, PairSidebar, PairAside>>

Corpora == {<<>>, Corpus, <<PairNoCandidate>>}

\* Coefficient vectors handed to deviationScore: none, the seven defaults,
\* a tuned vector, one of seven entries with a string that is no number, a
\* short one, one whose first entry is undefined, one with an eighth entry,
\* one with an entry that is no number and one with a string that converts
\* to a number.
TrialVectors ==
    {<<>>,
     DefaultCoeffs,
     [DefaultCoeffs EXCEPT ![2] = Number(5)],
     [DefaultCoeffs EXCEPT ![3] = String(<<"x">>)],
     <<Number(1)>>,
     <<Undefined, Number(5)>>,
     DefaultCoeffs \o <<Number(9)>>,
     <<String(<<"x">>)>>,
     <<Number(1), String(<<" ", "3", " ">>)>>}

DevInit ==
    /\ stats = DiffStatsNew(GivenPipeline)
    /\ hist = <<>>
    /\ scoreOut = NoScore
    /\ raised = NoError
    /\ trial = NoTrial
    /\ firstResult = <<>>
    /\ coeffs = DefaultCoeffs
    /\ annealer = NoAnnealer
    /\ transition = NoTransition
    /\ candidates = <<>>
    /\ bound = tunedContentFnodes(<<>>)
    /\ stage = 0

\* The key-value pairs of firstResult are kept as a sequence of records.
Known(docPairs, coeffArgs) ==
    \E i \in 1..Len(firstResult) :
        firstResult[i].docPairs = docPairs /\ firstResult[i].coeffs = coeffArgs

FirstOf(docPairs, coeffArgs) ==
    LET i == CHOOSE i \in 1..Len(firstResult) :
                 firstResult[i].docPairs = docPairs /\ firstResult[i].coeffs = coeffArgs
    IN  firstResult[i].result

DeviationScore(docPairs, coeffArgs) ==
    /\ Known(docPairs, coeffArgs) \/ Len(firstResult) < MaxTrials
    /\ \E made \in {deviationStats(docPairs, coeffArgs)} :
          /\ stats' = made
          /\ trial' = [made |-> TRUE, docPairs |-> docPairs, coeffs |-> coeffArgs,
                       outcome |-> "returned",
                       bound |-> made.contentFnodes.c,
                       result |-> score(made)]
          /\ firstResult' =
                 IF Known(docPairs, coeffArgs) THEN firstResult
                 ELSE Append(firstResult,
                          [docPairs |-> docPairs, coeffs |-> coeffArgs,
                           result |-> score(made)])
    /\ UNCHANGED <<diffVars, tunerVars, scoringVars>>

DevNext == \E d \in Corpora, c \in TrialVectors : DeviationScore(d, c)

SpecDev == DevInit /\ [][DevNext]_vars

---------------------------------------------------------------------------
(* ContentFnodesTuner.                                                     *)

\* A single paragraph, which is all of the content.
PairPlain ==
    <<Expected(<<"a", "\r", "\n">>), Source(<<Element("p", 1, 0, 1, Text(1))>>)>>

\* The folders of the Readability test data.
readabilityFolders ==
    <<"basic-tags-cleaning", "001", "daringfireball-1", "buzzfeed-1",
      "clean-links", "ehow-1", "embedded-videos", "heise", "herald-sun-1">>

\* The two documents kept in a folder of test/readability_test_data; small
\* documents stand for the files.
readabilityTestData(folder) ==
    CASE folder = "basic-tags-cleaning" -> PairParagraphs
      [] folder = "001" -> PairSidebar
      [] folder = "daringfireball-1" -> PairAside
      [] folder = "clean-links" -> PairNoCandidate
      [] folder \in {"002", "buzzfeed-1", "ehow-1", "embedded-videos",
                     "heise", "herald-sun-1"} -> PairPlain

\* The folders of test/readability_test_data: those readabilityDocPairs
\* names and 002, which it leaves out.
testFolders == {readabilityFolders[i] : i \in 1..Len(readabilityFolders)} \cup {"002"}

\* readFileSync finds the file.
fileExists(folder, fileName) ==
    folder \in testFolders /\ fileName \in {"expected.html", "source.html"}

\* staticDom(readFileSync(.../folder/fileName)), for a file that exists;
\* readFileSync throws for any other, and there is no value.
domFromFile(folder, fileName) ==
    CASE fileExists(folder, fileName) /\ fileName = "expected.html" ->
             readabilityTestData(folder)[1]
      [] fileExists(folder, fileName) /\ fileName = "source.html" ->
             readabilityTestData(folder)[2]

expectedAndSourceDocs(folder) ==
    <<domFromFile(folder, "expected.html"), domFromFile(folder, "source.html")>>

\* expectedAndSourceDocs(folder) ends with readFileSync's exception.
expectedAndSourceDocsThrows(folder) ==
    ~fileExists(folder, "expected.html") \/ ~fileExists(folder, "source.html")

\* readabilityDocPairs(): one pair of documents per folder.
readabilityDocPairs ==
    [i \in 1..Len(readabilityFolders) |-> expectedAndSourceDocs(readabilityFolders[i])]

---------------------------------------------------------------------------
(* DiffStats.compareFilesIn, and the instance in use.                      *)

\* Folder names handed to compareFilesIn: the folders there are and one
\* there is not.
FolderNames == testFolders \cup {"no-such-folder"}

\* compareFilesIn(folder): the two documents of the folder are read and
\* compared; when a file is missing readFileSync's exception leaves the
\* method before compare() is called.
CompareFilesIn(folder) ==
    IF expectedAndSourceDocsThrows(folder)
    THEN /\ raised' = "ENOENT"
         /\ UNCHANGED <<stats, hist, scoreOut>>
         /\ UNCHANGED <<devVars, tunerVars, scoringVars>>
    ELSE Compare(expectedAndSourceDocs(folder)[1], expectedAndSourceDocs(folder)[2])

DiffNext ==
    \/ \E e \in ExpectedDoms, s \in SourceDoms : Compare(e, s)
    \/ \E folder \in FolderNames : CompareFilesIn(folder)
    \/ Score

SpecDiff == DiffInit /\ [][DiffNext]_vars

---------------------------------------------------------------------------
(* The tuner's cost and transitions.                                       *)

\* A cost that grows with the likeness of the texts, not with their
\* deviation.
solutionCostLikeness(c) == Sub(Number(100), deviationScore(readabilityDocPairs, c))

\* this.solutionCost, bound in the constructor.
solutionCost(c) == deviationScore(readabilityDocPairs, c)

\* The text of -.5 and of .5 (Number.prototype.toString).
HalfString(coin) == IF coin # 0 THEN <<"-", "0", ".", "5">> ELSE <<"0", ".", "5">>

\* v += (coin ? -.5 : .5): a number is added to, undefined becomes NaN, null
\* and booleans count as 0 and 1, a string has the text of the number
\* appended.  Arrays and objects, whose text the model does not form, are
\* left out.
nudged(v, coin) ==
    LET half == IF coin # 0 THEN Num(-1, 2) ELSE Num(1, 2)
    IN  CASE IsNumber(v) -> Add(v, half)
          [] v = Undefined -> NaN
          [] v = Null \/ IsBoolean(v) -> Add(ToNumber(v), half)
          [] IsString(v) -> String(v.string \o HalfString(coin))

\* ret[index] += ... on an array: an index past the end (index 0 of the
\* empty array) makes the array grow by the entry undefined += ..., NaN.
nudgedAt(ret, index, coin) ==
    IF index + 1 <= Len(ret)
    THEN [ret EXCEPT ![index + 1] = nudged(@, coin)]
    ELSE Append(ret, nudged(Undefined, coin))

\* randomTransition without the copy: the array passed in is nudged and
\* returned.
randomTransitionInPlace(solution, index, coin) ==
    LET ret == nudgedAt(solution, index, coin)
    IN  [solution |-> ret, ret |-> ret]

\* randomTransition(solution), with index the value of
\* Math.floor(Math.random() * solution.length) and coin that of
\* Math.floor(Math.random() * 2): the array passed in as it is after the
\* call, and the array returned.
randomTransition(solution, index, coin) ==
    LET ret == solution
    IN  [solution |-> solution, ret |-> nudgedAt(ret, index, coin)]

\* The values Math.floor(Math.random() * length) can take.
randomIndexes(length) == IF length = 0 THEN {0} ELSE 0..(length - 1)

\* initialSolution(): the array coeffs itself.
initialSolution == coeffs

TunerInit ==
    /\ stats = DiffStatsNew(GivenPipeline)
    /\ hist = <<>>
    /\ scoreOut = NoScore
    /\ raised = NoError
    /\ trial = NoTrial
    /\ firstResult = <<>>
    /\ coeffs = DefaultCoeffs
    /\ annealer = NoAnnealer
    /\ transition = NoTransition
    /\ candidates = <<>>
    /\ bound = tunedContentFnodes(<<>>)
    /\ stage = 0

\* anneal() begins: the current and the best solution are both the array
\* initialSolution() returned.
AnnealStart ==
    /\ annealer.pc = "idle"
    /\ annealer' =
           [annealer EXCEPT
               !.pc = "loop",
               !.initial = initialSolution,
               !.currentSolution = initialSolution,
               !.currentCost = solutionCost(initialSolution),
               !.bestSolution = initialSolution,
               !.bestCost = solutionCost(initialSolution),
               !.currentIsCoeffs = TRUE,
               !.bestIsCoeffs = TRUE,
               !.bestIsCurrent = TRUE]
    /\ UNCHANGED <<stats, diffVars, devVars, coeffs, transition, scoringVars>>

\* One iteration of anneal(): a neighbour of the current solution is drawn
\* and costed; a cheaper one is always moved to, another one when the
\* schedule's draw says so (accept); the cheapest solution seen is kept.
AnnealStep(index, coin, accept) ==
    /\ annealer.pc = "loop"
    /\ annealer.steps < MaxSteps
    /\ \E r \in {randomTransition(annealer.currentSolution, index, coin)} :
       \E newCost \in {solutionCost(r.ret)} :
       \E move \in {Lt(newCost, annealer.currentCost) \/ accept} :
       \E better \in {move /\ Lt(newCost, annealer.bestCost)} :
          /\ transition' = [made |-> TRUE,
                            before |-> annealer.currentSolution,
                            after |-> r.solution,
                            ret |-> r.ret]
          /\ coeffs' = IF annealer.currentIsCoeffs THEN r.solution ELSE coeffs
          /\ annealer' =
                 [annealer EXCEPT
                     !.steps = @ + 1,
                     !.currentSolution = IF move THEN r.ret ELSE r.solution,
                     !.currentCost = IF move THEN newCost ELSE @,
                     !.bestSolution = IF better THEN r.ret
                                      ELSE IF annealer.bestIsCurrent THEN r.solution
                                      ELSE @,
                     !.bestCost = IF better THEN newCost ELSE @,
                     !.currentIsCoeffs = @ /\ ~move,
                     !.bestIsCoeffs = @ /\ ~better,
                     !.bestIsCurrent = IF move THEN better ELSE @]
    /\ UNCHANGED <<stats, diffVars, devVars, scoringVars>>

AnnealReturn ==
    /\ annealer.pc = "loop"
    /\ annealer.steps >= 1
    /\ annealer' = [annealer EXCEPT !.pc = "done"]
    /\ coeffs' = annealer.bestSolution
    /\ UNCHANGED <<stats, diffVars, devVars, transition, scoringVars>>

TunerNext ==
    \/ AnnealStart
    \/ \E index \in randomIndexes(Len(annealer.currentSolution)), coin \in {0, 1},
          accept \in BOOLEAN : AnnealStep(index, coin, accept)
    \/ AnnealReturn

SpecTuner == TunerInit /\ [][TunerNext]_vars

---------------------------------------------------------------------------
(* The three scoring rules, run one after the other over two candidate     *)
(* elements of the same tag and inline length.                             *)

CoeffValues == {Number(-1), Number(0), Num(1, 2), Number(2)}

ScoringInit ==
    /\ stats = DiffStatsNew(GivenPipeline)
    /\ hist = <<>>
    /\ scoreOut = NoScore
    /\ raised = NoError
    /\ trial = NoTrial
    /\ firstResult = <<>>
    /\ coeffs = DefaultCoeffs
    /\ annealer = NoAnnealer
    /\ transition = NoTransition
    /\ \E tag \in {"p", "div"}, length \in 0..MaxInline :
          \E linkA \in 0..length, linkB \in 0..length :
              candidates = <<Fnode(Element(tag, length, linkA, 1, Text(length))),
                         Fnode(Element(tag, length, linkB, 1, Text(length)))>>
    /\ \E cLinkDensity \in CoeffValues, cParagraphTag \in CoeffValues,
          cLength \in CoeffValues :
              bound = tunedContentFnodes(<<cLinkDensity, cParagraphTag, cLength>>)
    /\ stage = 0

RunLengthRule ==
    /\ stage = 0
    /\ candidates' = [i \in 1..Len(candidates) |-> lengthRule(candidates[i], bound)]
    /\ stage' = 1
    /\ UNCHANGED <<stats, diffVars, devVars, tunerVars, bound>>

RunLinkDensityRule ==
    /\ stage = 1
    /\ candidates' = [i \in 1..Len(candidates) |-> linkDensityRule(candidates[i], bound)]
    /\ stage' = 2
    /\ UNCHANGED <<stats, diffVars, devVars, tunerVars, bound>>

RunParagraphTagRule ==
    /\ stage = 2
    /\ candidates' = [i \in 1..Len(candidates) |-> paragraphTagRule(candidates[i], bound)]
    /\ stage' = 3
    /\ UNCHANGED <<stats, diffVars, devVars, tunerVars, bound>>

ScoringNext == RunLengthRule \/ RunLinkDensityRule \/ RunParagraphTagRule

SpecScoring == ScoringInit /\ [][ScoringNext]_vars

---------------------------------------------------------------------------
(* Properties.                                                             *)

RECURSIVE SumLen(_)
SumLen(h) == IF h = <<>> THEN 0 ELSE h[1].len + SumLen(Tail(h))

RECURSIVE SumDist(_)
SumDist(h) == IF h = <<>> THEN 0 ELSE h[1].dist + SumDist(Tail(h))

AllMatch(h) == \A i \in 1..Len(h) : h[i].match

\* A number that is neither NaN nor infinite and is not below zero.
NonNegative(x) == IsFinite(x) /\ x.n >= 0

Positive(x) == IsFinite(x) /\ x.n > 0

\* C1: the two totals of a DiffStats instance are 0 at construction, each
\* compare() adds that call's edit distance and normalized expected length
\* to them, score() changes neither, and after n >= 1 calls score()
\* returns 100 * (sum of the edit distances) / (sum of the expected lengths).
C1_ScoreIsRatioOfTotals ==
    /\ stats.lengthOfExpectedTexts = SumLen(hist)
    /\ stats.lengthOfDiffs = SumDist(hist)
    /\ \A i \in 1..Len(hist) :
           hist[i].addedLen = hist[i].len /\ hist[i].addedDiffs = hist[i].dist
    /\ (scoreOut.called /\ Len(hist) >= 1 =>
           scoreOut.value = Div(Number(100 * SumDist(hist)), Number(SumLen(hist))))

\* score() has been called after two compare() calls that added different
\* figures, none of the totals being 0.
C1_Witness ==
    /\ scoreOut.called
    /\ Len(hist) = 2
    /\ hist[1].dist > 0 /\ hist[2].dist > hist[1].dist
    /\ hist[1].len > 0 /\ hist[2].len > hist[1].len

\* C2: score() on an instance whose accumulated expected length is 0 (no
\* compare() made, or only empty expected texts) ends in an error; it
\* returns no number, NaN included.
C2_ZeroLengthScoreIsError ==
    scoreOut.called /\ stats.lengthOfExpectedTexts = 0 => scoreOut.outcome = "error"

HasNonNumber(v) == \E i \in 1..Len(v) : ~IsNumber(v[i])

BoundAt(c, i) ==
    CASE i = 1 -> c.coeffLinkDensity
      [] i = 2 -> c.coeffParagraphTag
      [] i = 3 -> c.coeffLength
      [] i = 4 -> c.coeffDifferentDepth
      [] i = 5 -> c.coeffDifferentTag
      [] i = 6 -> c.coeffSameTag
      [] i = 7 -> c.coeffStride

\* C3, as claimed: deviationScore with a coefficient vector whose length is
\* not 7, or with an entry that is no number, fails with an error before a
\* document is scored.
C3_BadVectorFails ==
    trial.made /\ (Len(trial.coeffs) # 7 \/ HasNonNumber(trial.coeffs))
        => trial.outcome = "error"

\* C3, amended: a coefficient vector whose length is not 7 is accepted;
\* each of the seven coefficients is bound to the entry at its position,
\* or to its default value when the vector has no entry there or an
\* undefined one; entries after the seventh are dropped; and with numeric
\* entries deviationScore goes on to score the documents and returns.
C3_MissingCoeffsTakeDefaults ==
    trial.made /\ Len(trial.coeffs) # 7 =>
        /\ \A i \in 1..7 :
               BoundAt(trial.bound, i) =
                   IF i <= Len(trial.coeffs) /\ trial.coeffs[i] # Undefined
                   THEN trial.coeffs[i] ELSE DefaultCoeffs[i]
        /\ (~HasNonNumber(trial.coeffs) => trial.outcome = "returned")

\* deviationScore has returned a number for the corpus and a vector of one
\* entry.
C3_Witness ==
    /\ trial.made
    /\ trial.coeffs = <<Number(1)>>
    /\ trial.docPairs = Corpus
    /\ trial.outcome = "returned"
    /\ IsFinite(trial.result)

Half == Num(1, 2)

\* C4: randomTransition(s) returns a vector of the length of s that
\* differs from s at exactly one index, by +0.5 or -0.5 there, and leaves s
\* as it was; so the array coeffs the run began with and the best solution
\* seen are never changed in place while anneal() runs.
C4_TransitionNudgesOneCoefficient ==
    /\ transition.made =>
           /\ transition.after = transition.before
           /\ Len(transition.ret) = Len(transition.before)
           /\ \E i \in 1..Len(transition.before) :
                  /\ \/ transition.ret[i] = Add(transition.before[i], Half)
                     \/ transition.ret[i] = Sub(transition.before[i], Half)
                  /\ \A j \in 1..Len(transition.before) :
                         j # i => transition.ret[j] = transition.before[j]
    /\ annealer.pc = "loop" =>
           /\ coeffs = annealer.initial
           /\ annealer.bestCost = solutionCost(annealer.bestSolution)

\* Two transitions have been made, the second from a solution other than
\* the initial one, and its result was not moved to.
C4_Witness ==
    /\ transition.made
    /\ annealer.pc = "loop"
    /\ annealer.steps = 2
    /\ transition.before # annealer.initial
    /\ annealer.currentSolution = transition.before
    /\ annealer.bestSolution # annealer.initial

\* C5: a compare() for which the pipeline returns no fnode raises nothing;
\* the extracted text is the empty string, and the call adds the length of
\* the normalized expected text to both totals; score() after that one
\* call, the expected text not being empty, is exactly 100.
C5_EmptyExtractionCostsFullLength ==
    /\ \A i \in 1..Len(hist) :
           hist[i].noFnodes =>
               /\ hist[i].gotEmpty
               /\ hist[i].addedDiffs = hist[i].len
               /\ hist[i].addedLen = hist[i].len
    /\ (scoreOut.called /\ Len(hist) = 1 /\ hist[1].noFnodes /\ hist[1].len > 0
           => scoreOut.outcome = "returned" /\ scoreOut.value = Number(100))

\* score() has been called after one compare() of a non-empty expected
\* text with a source the pipeline returned nothing for.
C5_Witness ==
    /\ scoreOut.called
    /\ Len(hist) = 1
    /\ hist[1].noFnodes
    /\ hist[1].len = 2

\* C6, as claimed: after one or more compare() calls score() returns a
\* number that is not negative, and exactly 0 when the two normalized
\* texts were equal in every call, empty texts included.
C6_ScoreZeroOnMatchAndNonNegative ==
    scoreOut.called /\ Len(hist) >= 1 =>
        /\ NonNegative(scoreOut.value)
        /\ (AllMatch(hist) => scoreOut.value = Number(0))

\* C6, amended: after one or more compare() calls whose normalized
\* expected texts are not all empty, score() returns a number that is not
\* negative, and exactly 0 when the two normalized texts were equal in
\* every call.
C6_ScoreZeroOnMatchGivenText ==
    scoreOut.called /\ Len(hist) >= 1 /\ SumLen(hist) > 0 =>
        /\ NonNegative(scoreOut.value)
        /\ (AllMatch(hist) => scoreOut.value = Number(0))

\* score() has been called after two compare() calls of equal texts, one
\* of them with the empty text.
C6_Witness ==
    /\ scoreOut.called
    /\ Len(hist) = 2
    /\ AllMatch(hist)
    /\ hist[1].len = 0
    /\ hist[2].len > 0

\* C7: the vector anneal() returns, which the main program assigns to
\* coeffs, is the best solution seen, and its deviationScore over the
\* tuner's corpus does not exceed that of the initial vector.
C7_ReturnedNoWorseThanInitial ==
    annealer.pc = "done" =>
        /\ coeffs = annealer.bestSolution
        /\ ~Lt(deviationScore(readabilityDocPairs, annealer.initial),
               deviationScore(readabilityDocPairs, coeffs))

\* anneal() has returned from a run whose last solution costs more than
\* the initial one and whose best solution costs less.
C7_Witness ==
    /\ annealer.pc = "done"
    /\ Lt(solutionCost(annealer.initial), annealer.currentCost)
    /\ Lt(annealer.bestCost, solutionCost(annealer.initial))

RECURSIVE ExpectedTotal(_)
ExpectedTotal(docPairs) ==
    IF docPairs = <<>> THEN 0
    ELSE Len(expectedTextOf(docPairs[1][1])) + ExpectedTotal(Tail(docPairs))

\* C8: what deviationScore(docPairs, coeffs) returns depends on its two
\* arguments alone: a call returns what the first call with the same
\* arguments returned, whatever calls came between, the instance it
\* scores with holds the expected lengths of its own docPairs and nothing
\* of an earlier call, and its pipeline is bound to its own coeffs.
C8_DeviationScoreDependsOnArgumentsOnly ==
    trial.made =>
        /\ trial.result = FirstOf(trial.docPairs, trial.coeffs)
        /\ stats.lengthOfExpectedTexts = ExpectedTotal(trial.docPairs)
        /\ stats.contentFnodes.c = tunedContentFnodes(trial.coeffs)

\* deviationScore has been called again with the arguments of the first
\* call, after a call with another vector that returned another value.
C8_Witness ==
    /\ trial.made
    /\ Len(firstResult) = 2
    /\ trial.docPairs = firstResult[1].docPairs
    /\ trial.coeffs = firstResult[1].coeffs
    /\ stats.lengthOfExpectedTexts > 0
    /\ firstResult[2].docPairs = firstResult[1].docPairs
    /\ firstResult[2].result # firstResult[1].result

\* C9: once the length rule has run, a candidate's note holds the raw
\* inline text length of its element, not scaled by the length weight, and
\* its score is that length times the length weight.
C9_NoteHoldsRawInlineLength ==
    \A i \in 1..Len(candidates) :
        /\ stage >= 1 =>
               candidates[i].note.inlineLength =
                   Number(inlineTextLength(candidates[i].element))
        /\ stage = 1 =>
               candidates[i].score =
                   Mul(Number(inlineTextLength(candidates[i].element)),
                       bound.coeffLength)

\* The share of an element's inline text that lies inside links.
trueLinkDensity(element) ==
    Div(Number(element.linkLength), Number(element.inlineLength))

\* C10, as claimed: of two candidates of the same tag and inline length,
\* the one with the greater link density has the smaller score after the
\* three scoring rules, whenever the link-density coefficient is positive,
\* whatever the length weight, zero included.
C10_DenserLinksScoreLess ==
    /\ stage = 3
    /\ Positive(bound.coeffLinkDensity)
    /\ Lt(trueLinkDensity(candidates[2].element),
          trueLinkDensity(candidates[1].element))
    => Lt(candidates[1].score, candidates[2].score)

\* C10, amended: the same, for every length weight other than zero.
C10_DenserLinksScoreLessGivenLengthWeight ==
    /\ stage = 3
    /\ Positive(bound.coeffLinkDensity)
    /\ IsFinite(bound.coeffLength) /\ bound.coeffLength # Number(0)
    /\ Lt(trueLinkDensity(candidates[2].element),
          trueLinkDensity(candidates[1].element))
    => Lt(candidates[1].score, candidates[2].score)

\* The three rules have run over two p elements, the first all links and
\* the second half links, with a negative paragraph-tag coefficient.
C10_Witness ==
    /\ stage = 3
    /\ candidates[1].element.tag = "p"
    /\ candidates[1].element.inlineLength = 2
    /\ candidates[1].element.linkLength = 2
    /\ candidates[2].element.linkLength = 1
    /\ bound.coeffLinkDensity = Num(1, 2)
    /\ bound.coeffLength = Number(2)
    /\ bound.coeffParagraphTag = Number(-1)

===========================================================================
